---- MODULE Spec2Model ----
(***************************************************************************)
(* GreenVision serial ingestion backend (evathon/backend/serial_reader.py). *)
(*                                                                         *)
(* The model follows the module's three kinds of thread: main(), the       *)
(* daemon thread running serial_listener(), and the Flask request threads  *)
(* serving api_data() and api_status().  Shared state is the pair of       *)
(* module globals DATA_BUFFER and MOCK_MODE plus the CSV file; there is no  *)
(* lock in the source, so every read or write of a global is a step of its *)
(* own and the threads interleave between them.                            *)
(*                                                                         *)
(* Text is a sequence of one-character strings.  A float is a record       *)
(* [kind, milli]: kind "num" with the value in thousandths, or "inf" /     *)
(* "nan" (milli carries the sign of an infinity).                          *)
(***************************************************************************)
EXTENDS Integers, Sequences, FiniteSets, TLC

\* ------------------------------------------------------------------ bounds
\* Capacity of the retention buffer.  The source sets 100; the push/evict
\* code compares against the name only, and the model runs it at a small
\* capacity so that overflow happens within a few ticks.
BUFFER_SIZE == 2
\* Loop iterations of serial_listener explored (the loop itself is endless).
MaxTicks == 3

\* ------------------------------------------------------------------- text
WS == {" ", "\n", "\r", "\t"}
Digits == <<"0", "1", "2", "3", "4", "5", "6", "7", "8", "9">>
LowerChars == <<"a","b","c","d","e","f","g","h","i","j","k","l","m",
                "n","o","p","q","r","s","t","u","v","w","x","y","z">>
UpperChars == <<"A","B","C","D","E","F","G","H","I","J","K","L","M",
                "N","O","P","Q","R","S","T","U","V","W","X","Y","Z">>

IsDigit(c) == \E i \in 1..10 : Digits[i] = c
DigitVal(c) == (CHOOSE i \in 1..10 : Digits[i] = c) - 1

\* str.upper(), one character
UpperChar(c) ==
    IF \E i \in 1..26 : LowerChars[i] = c
    THEN UpperChars[CHOOSE i \in 1..26 : LowerChars[i] = c]
    ELSE c
\* str.lower(), one character
LowerChar(c) ==
    IF \E i \in 1..26 : UpperChars[i] = c
    THEN LowerChars[CHOOSE i \in 1..26 : UpperChars[i] = c]
    ELSE c
\* Upper with the call of upper() left out
KeepCase(s) == s
Upper(s) == [i \in 1..Len(s) |-> UpperChar(s[i])]
Lower(s) == [i \in 1..Len(s) |-> LowerChar(s[i])]

RECURSIVE LStrip(_)
LStrip(s) == IF s # <<>> /\ Head(s) \in WS THEN LStrip(Tail(s)) ELSE s
RECURSIVE RStrip(_)
RStrip(s) ==
    IF s # <<>> /\ s[Len(s)] \in WS THEN RStrip(SubSeq(s, 1, Len(s) - 1)) ELSE s
\* str.strip()
Strip(s) == RStrip(LStrip(s))

\* str.split(","): the fields between the commas, empty fields kept
RECURSIVE SplitFrom(_, _, _)
SplitFrom(s, i, cur) ==
    IF i > Len(s) THEN <<cur>>
    ELSE IF s[i] = "," THEN <<cur>> \o SplitFrom(s, i + 1, <<>>)
    ELSE SplitFrom(s, i + 1, Append(cur, s[i]))
Split(s) == SplitFrom(s, 1, <<>>)

\* ----------------------------------------------------------------- floats
ValueError == [ok |-> FALSE, kind |-> "err", milli |-> 0]
Float(k, m) == [ok |-> TRUE, kind |-> k, milli |-> m]

RECURSIVE DigitsVal(_)
DigitsVal(s) == IF s = <<>> THEN 0
                ELSE 10 * DigitsVal(SubSeq(s, 1, Len(s) - 1)) + DigitVal(s[Len(s)])
AllDigits(s) == \A i \in 1..Len(s) : IsDigit(s[i])
\* fractional digits as thousandths (further digits are below the model's grain)
FracMilli(s) ==
    LET d(i) == IF i <= Len(s) THEN DigitVal(s[i]) ELSE 0
    IN  100 * d(1) + 10 * d(2) + d(3)

\* the unsigned part of a float literal: inf, infinity, nan in any case, or
\* digits with at most one point and at least one digit
Unsigned(s) ==
    LET low == Lower(s)
        dots == {i \in 1..Len(s) : s[i] = "."}
    IN  IF low \in {<<"i","n","f">>, <<"i","n","f","i","n","i","t","y">>}
        THEN Float("inf", 1)
        ELSE IF low = <<"n","a","n">> THEN Float("nan", 0)
        ELSE IF s = <<>> THEN ValueError
        ELSE IF dots = {} THEN
            IF AllDigits(s) THEN Float("num", 1000 * DigitsVal(s)) ELSE ValueError
        ELSE IF Cardinality(dots) > 1 THEN ValueError
        ELSE LET d == CHOOSE i \in dots : TRUE
                 ip == SubSeq(s, 1, d - 1)
                 fp == SubSeq(s, d + 1, Len(s))
             IN  IF AllDigits(ip) /\ AllDigits(fp) /\ Len(ip) + Len(fp) > 0
                 THEN Float("num", 1000 * DigitsVal(ip) + FracMilli(fp))
                 ELSE ValueError

\* float(text): surrounding whitespace ignored, one optional sign
ToFloat(text) ==
    LET s == Strip(text)
    IN  IF s # <<>> /\ Head(s) \in {"+", "-"}
        THEN LET u == Unsigned(Tail(s))
             IN  IF u.ok /\ Head(s) = "-" THEN Float(u.kind, 0 - u.milli) ELSE u
        ELSE Unsigned(s)

\* ----------------------------------------------------------------- parser
None == [none |-> TRUE]

\* parse_serial_line: None, or the dict of the four fields
parse_serial_line(line0) ==
    LET line == Strip(line0)
        parts == Split(line)
    IN  IF line = <<>> THEN None
        ELSE IF Len(parts) # 4 THEN None
        ELSE LET rri == ToFloat(Strip(parts[1]))
                 bsi == ToFloat(Strip(parts[2]))
             IN  IF ~rri.ok \/ ~bsi.ok THEN None
                 ELSE [rri |-> rri, bsi |-> bsi,
                       road_condition |-> Upper(Strip(parts[3])),
                       battery_status |-> Upper(Strip(parts[4]))]

\* ------------------------------------------------------------- formatting
RECURSIVE NatChars(_)
NatChars(n) == IF n < 10 THEN <<Digits[n + 1]>>
               ELSE NatChars(n \div 10) \o <<Digits[(n % 10) + 1]>>
\* the fractional digits of a value in thousandths, trailing zeros dropped
FracChars(m) ==
    IF m % 1000 = 0 THEN <<"0">>
    ELSE IF m % 100 = 0 THEN <<Digits[(m \div 100) + 1]>>
    ELSE IF m % 10 = 0 THEN <<Digits[(m \div 100) + 1], Digits[((m \div 10) % 10) + 1]>>
    ELSE <<Digits[(m \div 100) + 1], Digits[((m \div 10) % 10) + 1], Digits[(m % 10) + 1]>>
\* f"{x}" of a float
FormatFloat(x) ==
    LET a == IF x.milli < 0 THEN 0 - x.milli ELSE x.milli
        sign == IF x.milli < 0 THEN <<"-">> ELSE <<>>
    IN  IF x.kind = "nan" THEN <<"n","a","n">>
        ELSE IF x.kind = "inf" THEN sign \o <<"i","n","f">>
        ELSE sign \o NatChars(a \div 1000) \o <<".">> \o FracChars(a % 1000)
\* the rendered timestamp; ts counts poll intervals since the process started
FormatTs(ts) == <<"T">> \o NatChars(ts) \o <<"Z">>

CSV_HEADER == <<"t","i","m","e","s","t","a","m","p",",","r","r","i",",","b","s","i",",","r","o","a","d","_","c","o","n","d","i","t","i","o","n",",","b","a","t","t","e","r","y","_","s","t","a","t","u","s","\n">>
\* the line append_to_csv writes
CsvRow(timestamp, rri, bsi, road_condition, battery_status) ==
    timestamp \o <<",">> \o FormatFloat(rri) \o <<",">> \o FormatFloat(bsi) \o <<",">>
        \o road_condition \o <<",">> \o battery_status \o <<"\n">>

\* ------------------------------------------------------------ environment
\* Lines the Arduino may send (readline() result, decoded).
LineSmooth ==
    <<"0",".","5",",","1","5",".","2",",","s","m","o","o","t","h",",","n","o","r","m","a","l","\n">>
LineBad == <<"b","a","d",",","d","a","t","a","\n">>
LineRough ==
    <<"0",".","9",",","2","2",".","0",",","R","O","U","G","H",",","C","R","I","T","I","C","A","L","\n">>
HwLines == {LineSmooth, LineBad, LineRough}

\* Results of serial.tools.list_ports.comports(): description words and device.
PortLists == {
    <<[description |-> <<"ttyS0">>, device |-> "/dev/ttyS0"]>>,
    <<[description |-> <<"Bluetooth">>, device |-> "/dev/rfcomm0"],
      [description |-> <<"Serial", "CH340">>, device |-> "/dev/ttyUSB0"]>>,
    <<[description |-> <<"Arduino", "Uno">>, device |-> "/dev/ttyACM0"],
      [description |-> <<"USB">>, device |-> "/dev/ttyUSB1"]>> }

\* Values generate_mock_data returns.  The draws are independent; the model
\* explores the two ends of each numeric range and a subset of the categories.
conditions == {<<"S","M","O","O","T","H">>, <<"R","O","U","G","H">>}
batteries == {<<"N","O","R","M","A","L">>}
MockRri == {Float("num", 200)}
MockBsi == {Float("num", 25000)}
generate_mock_data ==
    [rri : MockRri, bsi : MockBsi, road_condition : conditions, battery_status : batteries]

\* ------------------------------------------------------------------ state
VARIABLES
    SERIAL_AVAILABLE,   \* whether "import serial" succeeded (lines 15-20)
    DATA_BUFFER,        \* module global, list of reading dicts
    MOCK_MODE,          \* module global
    csv_exists, csv,    \* CSV_PATH: whether the file exists, and its lines
    main_pc,            \* position of main()
    lpc,                \* position of the serial_listener thread
    ser,                \* serial_listener's local: "None", "open" or "closed"
    arduino_port,       \* serial_listener's local
    data,               \* the dict handed to process_and_store
    ts,                 \* process_and_store's local
    src, wrote,         \* history: where data came from, whether its row was written
    exc,                \* the exception in flight in the listener
    ticks,              \* poll intervals slept so far; the clock of utcnow()
    ports,              \* serial_listener's local: what comports() returned
    d_pc, d_data,       \* an api_data request: its position, its list(DATA_BUFFER)
    s_pc, s_mock,       \* an api_status request: its position, the MOCK_MODE it read
    opened,             \* history: how serial.Serial(...) ended
    fed,                \* history: the lines readline() returned, in order
    io_errors,          \* history: OSErrors caught by append_to_csv
    accepted            \* history: every entry appended to DATA_BUFFER, with its origin

vars == <<SERIAL_AVAILABLE, DATA_BUFFER, MOCK_MODE, csv_exists, csv, main_pc, lpc, ser,
          arduino_port, data, ts, src, wrote, exc, ticks, ports, d_pc, d_data,
          s_pc, s_mock, opened, fed, io_errors, accepted>>

listener_vars == <<lpc, ser, arduino_port, data, ts, src, wrote, exc, fed, io_errors, ticks, ports, opened>>
reader_vars == <<d_pc, d_data, s_pc, s_mock>>
shared_vars == <<DATA_BUFFER, MOCK_MODE, csv_exists, csv, accepted>>


\* The log a process start may find: none, or the header an earlier start wrote.
InitialLogs == {<<>>, <<CSV_HEADER>>}

Init ==
    /\ SERIAL_AVAILABLE \in BOOLEAN
    /\ DATA_BUFFER = <<>>
    /\ MOCK_MODE = FALSE
    /\ csv \in InitialLogs
    /\ csv_exists = (csv # <<>>)
    /\ main_pc = "ensure_data_dir"
    /\ lpc = "not_started"
    /\ ser = "None"
    /\ arduino_port = "None"
    /\ data = None
    /\ ts = 0
    /\ src = "none" /\ wrote = FALSE
    /\ exc = "none"
    /\ ticks = 0
    /\ ports = <<>>
    /\ d_pc = "idle" /\ d_data = <<>>
    /\ s_pc = "idle" /\ s_mock = FALSE
    /\ opened = "untried"
    /\ fed = <<>> /\ io_errors = 0
    /\ accepted = <<>>

\* ------------------------------------------------------------------- main
\* ensure_data_dir without the os.path.exists test
ensure_data_dir_unconditional ==
    /\ main_pc = "ensure_data_dir"
    /\ csv_exists' = TRUE /\ csv' = <<CSV_HEADER>>
    /\ main_pc' = "start_thread"
    /\ UNCHANGED <<SERIAL_AVAILABLE, DATA_BUFFER, MOCK_MODE, accepted>>
    /\ UNCHANGED listener_vars /\ UNCHANGED reader_vars

\* ensure_data_dir(): write the header when the file is absent
ensure_data_dir ==
    /\ main_pc = "ensure_data_dir"
    /\ IF ~csv_exists
       THEN csv_exists' = TRUE /\ csv' = <<CSV_HEADER>>
       ELSE UNCHANGED <<csv_exists, csv>>
    /\ main_pc' = "start_thread"
    /\ UNCHANGED <<SERIAL_AVAILABLE, DATA_BUFFER, MOCK_MODE, accepted>>
    /\ UNCHANGED listener_vars /\ UNCHANGED reader_vars

\* t = threading.Thread(target=serial_listener, daemon=True); t.start()
start_thread ==
    /\ main_pc = "start_thread"
    /\ main_pc' = "app_run"
    /\ lpc' = "detect"
    /\ UNCHANGED <<SERIAL_AVAILABLE, ser, arduino_port, data, ts, src, wrote, exc, ticks,
                   ports, opened, fed, io_errors>>
    /\ UNCHANGED shared_vars /\ UNCHANGED reader_vars

\* app.run(...): from here on requests are served
app_run ==
    /\ main_pc = "app_run"
    /\ main_pc' = "serving"
    /\ UNCHANGED SERIAL_AVAILABLE
    /\ UNCHANGED shared_vars /\ UNCHANGED listener_vars /\ UNCHANGED reader_vars

\* -------------------------------------------------- serial_listener: startup
Hints == {"Arduino", "CH340", "USB"}
\* the for loop of lines 111-114: the device of the first port whose
\* description holds a hint, "None" when there is none
RECURSIVE FirstCandidate(_)
FirstCandidate(plist) ==
    IF plist = <<>> THEN "None"
    ELSE IF \E h \in Hints : \E i \in 1..Len(Head(plist).description) :
                Head(plist).description[i] = h
         THEN Head(plist).device
         ELSE FirstCandidate(Tail(plist))

\* lines 108-115, 124-126: pyserial present; list the ports and pick one
listener_detect ==
    /\ lpc = "detect"
    /\ SERIAL_AVAILABLE
    /\ \E found \in PortLists :
        /\ ports' = found
        /\ arduino_port' = FirstCandidate(found)
        /\ IF FirstCandidate(found) # "None"
           THEN lpc' = "open" /\ UNCHANGED MOCK_MODE
           ELSE lpc' = "tick" /\ MOCK_MODE' = TRUE
    /\ UNCHANGED <<SERIAL_AVAILABLE, DATA_BUFFER, csv_exists, csv, accepted, main_pc, fed, io_errors>>
    /\ UNCHANGED <<ser, data, ts, src, wrote, exc, ticks, opened>>
    /\ UNCHANGED reader_vars

\* listener_no_pyserial without the assignment of line 128
listener_no_pyserial_keeps_mode ==
    /\ lpc = "detect"
    /\ ~SERIAL_AVAILABLE
    /\ lpc' = "tick"
    /\ UNCHANGED <<SERIAL_AVAILABLE, DATA_BUFFER, MOCK_MODE, csv_exists, csv, accepted, main_pc, fed, io_errors>>
    /\ UNCHANGED <<ser, arduino_port, data, ts, src, wrote, exc, ticks, ports, opened>>
    /\ UNCHANGED reader_vars

\* lines 127-129: pyserial not installed
listener_no_pyserial ==
    /\ lpc = "detect"
    /\ ~SERIAL_AVAILABLE
    /\ MOCK_MODE' = TRUE
    /\ lpc' = "tick"
    /\ UNCHANGED <<SERIAL_AVAILABLE, DATA_BUFFER, csv_exists, csv, accepted, main_pc, fed, io_errors>>
    /\ UNCHANGED <<ser, arduino_port, data, ts, src, wrote, exc, ticks, ports, opened>>
    /\ UNCHANGED reader_vars

\* lines 116-119: serial.Serial(...) returns
listener_open_ok ==
    /\ lpc = "open"
    /\ ser' = "open"
    /\ MOCK_MODE' = FALSE
    /\ opened' = "ok"
    /\ lpc' = "tick"
    /\ UNCHANGED <<SERIAL_AVAILABLE, DATA_BUFFER, csv_exists, csv, accepted, main_pc, fed, io_errors>>
    /\ UNCHANGED <<arduino_port, data, ts, src, wrote, exc, ticks, ports>>
    /\ UNCHANGED reader_vars

\* listener_open_failed with line 123 left out
listener_open_failed_keeps_mode ==
    /\ lpc = "open"
    /\ ser' = "None"
    /\ opened' = "failed"
    /\ lpc' = "tick"
    /\ UNCHANGED <<SERIAL_AVAILABLE, DATA_BUFFER, csv_exists, csv, accepted, main_pc, fed, io_errors>>
    /\ UNCHANGED <<MOCK_MODE, arduino_port, data, ts, src, wrote, exc, ticks, ports>>
    /\ UNCHANGED reader_vars

\* lines 120-123: serial.Serial(...) raises SerialException or OSError
listener_open_failed ==
    /\ lpc = "open"
    /\ ser' = "None"
    /\ MOCK_MODE' = TRUE
    /\ opened' = "failed"
    /\ lpc' = "tick"
    /\ UNCHANGED <<SERIAL_AVAILABLE, DATA_BUFFER, csv_exists, csv, accepted, main_pc, fed, io_errors>>
    /\ UNCHANGED <<arduino_port, data, ts, src, wrote, exc, ticks, ports>>
    /\ UNCHANGED reader_vars

\* ------------------------------------------------ serial_listener: one tick
\* line 133: "ser and ser.is_open"
HardwareActive == ser = "open"

fixed == <<SERIAL_AVAILABLE, main_pc, arduino_port, ports, opened>>
others == <<fixed, fed, io_errors>>

\* lines 133-134: the port is open and in_waiting is 0
tick_no_data ==
    /\ lpc = "tick" /\ ticks < MaxTicks
    /\ HardwareActive
    /\ lpc' = "sleep"
    /\ UNCHANGED <<ser, data, ts, src, wrote, exc, ticks>>
    /\ UNCHANGED others /\ UNCHANGED shared_vars /\ UNCHANGED reader_vars

\* lines 134-138: a line is waiting; read it, parse it, keep it if it parses
tick_read_line ==
    /\ lpc = "tick" /\ ticks < MaxTicks
    /\ HardwareActive
    /\ \E raw \in HwLines :
        LET parsed == parse_serial_line(raw)
        IN  IF parsed # None
            THEN data' = parsed /\ src' = "hw" /\ lpc' = "store" /\ fed' = Append(fed, raw)
            ELSE lpc' = "sleep" /\ fed' = Append(fed, raw) /\ UNCHANGED <<data, src>>
    /\ UNCHANGED <<ser, ts, wrote, exc, ticks>>
    /\ UNCHANGED <<fixed, io_errors>> /\ UNCHANGED shared_vars /\ UNCHANGED reader_vars

\* lines 134-135: in_waiting or readline() raises serial.SerialException
tick_serial_error ==
    /\ lpc = "tick" /\ ticks < MaxTicks
    /\ HardwareActive
    /\ exc' = "SerialException"
    /\ lpc' = "except"
    /\ UNCHANGED <<ser, data, ts, src, wrote, ticks>>
    /\ UNCHANGED others /\ UNCHANGED shared_vars /\ UNCHANGED reader_vars

\* tick_mock without the call of process_and_store of line 142
tick_mock_drops ==
    /\ lpc = "tick" /\ ticks < MaxTicks
    /\ ~HardwareActive
    /\ lpc' = "sleep"
    /\ UNCHANGED <<ser, data, src, ts, wrote, exc, ticks>>
    /\ UNCHANGED others /\ UNCHANGED shared_vars /\ UNCHANGED reader_vars

\* lines 139-142: no open port; generate a reading
tick_mock ==
    /\ lpc = "tick" /\ ticks < MaxTicks
    /\ ~HardwareActive
    /\ \E mock \in generate_mock_data : data' = mock
    /\ src' = "mock"
    /\ lpc' = "store"
    /\ UNCHANGED <<ser, ts, wrote, exc, ticks>>
    /\ UNCHANGED others /\ UNCHANGED shared_vars /\ UNCHANGED reader_vars

\* any other exception raised inside the try block, before or inside
\* process_and_store's first statements (an OSError of in_waiting, a warning
\* raised as an error by utcnow(), ...): nothing has been stored yet
tick_error ==
    /\ \/ lpc = "tick" /\ ticks < MaxTicks
       \/ lpc = "store"
    /\ exc' = "Exception"
    /\ lpc' = "except"
    /\ data' = None /\ src' = "none"
    /\ UNCHANGED <<ser, ts, wrote, ticks>>
    /\ UNCHANGED others /\ UNCHANGED shared_vars /\ UNCHANGED reader_vars

\* ------------------------------------------------------- process_and_store
\* append_to_csv opening the file with "w" in place of "a"
append_to_csv_truncates ==
    /\ lpc = "store"
    /\ ts' = ticks
    /\ csv' = <<CsvRow(FormatTs(ticks), data.rri, data.bsi,
                       data.road_condition, data.battery_status)>>
    /\ csv_exists' = TRUE
    /\ wrote' = TRUE
    /\ lpc' = "append"
    /\ UNCHANGED <<ser, data, src, exc, ticks>>
    /\ UNCHANGED <<DATA_BUFFER, MOCK_MODE, accepted>>
    /\ UNCHANGED others /\ UNCHANGED reader_vars

\* lines 89-90 and 52-54: stamp the reading, append its row to the file
append_to_csv ==
    /\ lpc = "store"
    /\ ts' = ticks
    /\ csv' = Append(csv, CsvRow(FormatTs(ticks), data.rri, data.bsi,
                                 data.road_condition, data.battery_status))
    /\ csv_exists' = TRUE
    /\ wrote' = TRUE
    /\ lpc' = "append"
    /\ UNCHANGED <<ser, data, src, exc, ticks>>
    /\ UNCHANGED <<DATA_BUFFER, MOCK_MODE, accepted>>
    /\ UNCHANGED others /\ UNCHANGED reader_vars

\* append_to_csv_failed without the except clause of line 55: the OSError
\* leaves process_and_store and reaches the loop's handlers
append_to_csv_uncaught ==
    /\ lpc = "store"
    /\ io_errors' = io_errors + 1
    /\ exc' = "Exception"
    /\ lpc' = "except"
    /\ data' = None /\ src' = "none"
    /\ UNCHANGED <<ser, ts, wrote, ticks>>
    /\ UNCHANGED <<fixed, fed>> /\ UNCHANGED shared_vars /\ UNCHANGED reader_vars

\* lines 89-90 and 55-56: open() or write() raises OSError; it is caught
append_to_csv_failed ==
    /\ lpc = "store"
    /\ ts' = ticks
    /\ wrote' = FALSE
    /\ io_errors' = io_errors + 1
    /\ lpc' = "append"
    /\ UNCHANGED <<ser, data, src, exc, ticks>>
    /\ UNCHANGED <<fixed, fed>> /\ UNCHANGED shared_vars /\ UNCHANGED reader_vars

\* the dict of lines 91-97
Entry(timestamp, d) ==
    [timestamp |-> timestamp, rri |-> d.rri, bsi |-> d.bsi,
     road_condition |-> d.road_condition, battery_status |-> d.battery_status]

\* buffer_append reading the clock again for the entry's timestamp
buffer_append_restamps ==
    /\ lpc = "append"
    /\ DATA_BUFFER' = Append(DATA_BUFFER, Entry(ts + 1, data))
    /\ accepted' = Append(accepted, [entry |-> Entry(ts + 1, data), src |-> src, logged |-> wrote])
    /\ lpc' = "evict"
    /\ UNCHANGED <<ser, data, ts, src, wrote, exc, ticks>>
    /\ UNCHANGED <<MOCK_MODE, csv_exists, csv>>
    /\ UNCHANGED others /\ UNCHANGED reader_vars

\* lines 91-97: DATA_BUFFER.append({...})
buffer_append ==
    /\ lpc = "append"
    /\ DATA_BUFFER' = Append(DATA_BUFFER, Entry(ts, data))
    /\ accepted' = Append(accepted, [entry |-> Entry(ts, data), src |-> src, logged |-> wrote])
    /\ lpc' = "evict"
    /\ UNCHANGED <<ser, data, ts, src, wrote, exc, ticks>>
    /\ UNCHANGED <<MOCK_MODE, csv_exists, csv>>
    /\ UNCHANGED others /\ UNCHANGED reader_vars

\* Evict with pop() in place of pop(0): the newest entry goes
EvictNewest(buffer) ==
    IF Len(buffer) > BUFFER_SIZE THEN SubSeq(buffer, 1, Len(buffer) - 1) ELSE buffer

\* lines 98-99: if len(DATA_BUFFER) > BUFFER_SIZE: DATA_BUFFER.pop(0)
Evict(buffer) == IF Len(buffer) > BUFFER_SIZE THEN Tail(buffer) ELSE buffer

\* buffer_evict popping twice when the buffer is over capacity
buffer_evict_twice ==
    /\ lpc = "evict"
    /\ DATA_BUFFER' = IF Len(DATA_BUFFER) > BUFFER_SIZE
                      THEN Tail(Tail(DATA_BUFFER)) ELSE DATA_BUFFER
    /\ lpc' = "sleep"
    /\ data' = None /\ ts' = 0 /\ src' = "none" /\ wrote' = FALSE
    /\ UNCHANGED <<ser, exc, ticks>>
    /\ UNCHANGED <<MOCK_MODE, csv_exists, csv, accepted>>
    /\ UNCHANGED others /\ UNCHANGED reader_vars

\* lines 98-99, the end of process_and_store
buffer_evict ==
    /\ lpc = "evict"
    /\ DATA_BUFFER' = Evict(DATA_BUFFER)
    /\ lpc' = "sleep"
    /\ data' = None /\ ts' = 0 /\ src' = "none" /\ wrote' = FALSE
    /\ UNCHANGED <<ser, exc, ticks>>
    /\ UNCHANGED <<MOCK_MODE, csv_exists, csv, accepted>>
    /\ UNCHANGED others /\ UNCHANGED reader_vars

\* ------------------------------------------- serial_listener: the handlers
\* line 143 with pyserial absent: the name "serial" is unbound, evaluating
\* "serial.SerialException" raises NameError out of the loop; the thread ends
except_name_error ==
    /\ lpc = "except"
    /\ ~SERIAL_AVAILABLE
    /\ lpc' = "dead"
    /\ exc' = "NameError"
    /\ UNCHANGED <<ser, data, ts, src, wrote, ticks>>
    /\ UNCHANGED others /\ UNCHANGED shared_vars /\ UNCHANGED reader_vars

\* lines 143-144: the exception is a serial.SerialException
except_serial ==
    /\ lpc = "except"
    /\ SERIAL_AVAILABLE /\ exc = "SerialException"
    /\ lpc' = "close"
    /\ UNCHANGED <<ser, data, ts, src, wrote, exc, ticks>>
    /\ UNCHANGED others /\ UNCHANGED shared_vars /\ UNCHANGED reader_vars

\* handler_close without the try of lines 145-149: an exception of close()
\* leaves the handler, and with it the loop
handler_close_unguarded ==
    /\ lpc = "close"
    /\ \/ ser' = "closed" /\ lpc' = "drop" /\ UNCHANGED exc
       \/ ser' = ser /\ lpc' = "dead" /\ exc' = "Exception"
    /\ UNCHANGED <<data, ts, src, wrote, ticks>>
    /\ UNCHANGED others /\ UNCHANGED shared_vars /\ UNCHANGED reader_vars

\* lines 145-149: close the port; an exception of close() is passed over
handler_close ==
    /\ lpc = "close"
    /\ IF ser # "None" THEN ser' \in {"closed", ser} ELSE UNCHANGED ser
    /\ lpc' = "drop"
    /\ UNCHANGED <<data, ts, src, wrote, exc, ticks>>
    /\ UNCHANGED others /\ UNCHANGED shared_vars /\ UNCHANGED reader_vars

\* handler_drop with line 150 left out
handler_keeps_ser ==
    /\ lpc = "drop"
    /\ lpc' = "set_mock"
    /\ UNCHANGED <<ser, data, ts, src, wrote, exc, ticks>>
    /\ UNCHANGED others /\ UNCHANGED shared_vars /\ UNCHANGED reader_vars

\* line 150: ser = None
handler_drop ==
    /\ lpc = "drop"
    /\ ser' = "None"
    /\ lpc' = "set_mock"
    /\ UNCHANGED <<data, ts, src, wrote, exc, ticks>>
    /\ UNCHANGED others /\ UNCHANGED shared_vars /\ UNCHANGED reader_vars

\* handler_set_mock with line 151 left out
handler_forgets_mock ==
    /\ lpc = "set_mock"
    /\ exc' = "none"
    /\ lpc' = "sleep"
    /\ UNCHANGED <<ser, data, ts, src, wrote, ticks>>
    /\ UNCHANGED others /\ UNCHANGED shared_vars /\ UNCHANGED reader_vars

\* line 151: MOCK_MODE = True
handler_set_mock ==
    /\ lpc = "set_mock"
    /\ MOCK_MODE' = TRUE
    /\ exc' = "none"
    /\ lpc' = "sleep"
    /\ UNCHANGED <<ser, data, ts, src, wrote, ticks>>
    /\ UNCHANGED <<DATA_BUFFER, csv_exists, csv, accepted>>
    /\ UNCHANGED others /\ UNCHANGED reader_vars

\* lines 152-153: any other Exception is printed
except_other ==
    /\ lpc = "except"
    /\ SERIAL_AVAILABLE /\ exc = "Exception"
    /\ exc' = "none"
    /\ lpc' = "sleep"
    /\ UNCHANGED <<ser, data, ts, src, wrote, ticks>>
    /\ UNCHANGED others /\ UNCHANGED shared_vars /\ UNCHANGED reader_vars

\* line 154: time.sleep(POLL_INTERVAL), then the next iteration
sleep ==
    /\ lpc = "sleep"
    /\ ticks' = ticks + 1
    /\ lpc' = "tick"
    /\ UNCHANGED <<ser, data, ts, src, wrote, exc>>
    /\ UNCHANGED others /\ UNCHANGED shared_vars /\ UNCHANGED reader_vars

\* -------------------------------------------------------------- API routes
\* Flask serves each request on a thread of its own (threaded=True); one
\* request of each route is in flight at a time here, any number in sequence.
listener_locals == <<lpc, ser, data, ts, src, wrote, exc, ticks>>

\* line 163: list(DATA_BUFFER)
api_data_copy ==
    /\ main_pc = "serving"
    /\ d_pc = "idle"
    /\ d_data' = DATA_BUFFER
    /\ d_pc' = "copied"
    /\ UNCHANGED <<s_pc, s_mock>>
    /\ UNCHANGED others /\ UNCHANGED shared_vars /\ UNCHANGED listener_locals

\* the JSON object api_data returns when it reads MOCK_MODE now (line 164)
api_data_response == [data |-> d_data, mock_mode |-> MOCK_MODE]

\* lines 162-165: read MOCK_MODE, return the response
api_data_return ==
    /\ d_pc = "copied"
    /\ d_data' = <<>>
    /\ d_pc' = "idle"
    /\ UNCHANGED <<s_pc, s_mock>>
    /\ UNCHANGED others /\ UNCHANGED shared_vars /\ UNCHANGED listener_locals

\* line 173: read MOCK_MODE
api_status_mode ==
    /\ main_pc = "serving"
    /\ s_pc = "idle"
    /\ s_mock' = MOCK_MODE
    /\ s_pc' = "mode_read"
    /\ UNCHANGED <<d_pc, d_data>>
    /\ UNCHANGED others /\ UNCHANGED shared_vars /\ UNCHANGED listener_locals

\* the JSON object api_status returns when it reads len(DATA_BUFFER) now (line 174)
api_status_response ==
    [status |-> "ok", mock_mode |-> s_mock, buffer_size |-> Len(DATA_BUFFER)]

\* lines 171-175: read len(DATA_BUFFER), return the response
api_status_return ==
    /\ s_pc = "mode_read"
    /\ s_mock' = FALSE
    /\ s_pc' = "idle"
    /\ UNCHANGED <<d_pc, d_data>>
    /\ UNCHANGED others /\ UNCHANGED shared_vars /\ UNCHANGED listener_locals

\* ------------------------------------------------------------ specification
Next ==
    \/ ensure_data_dir \/ start_thread \/ app_run
    \/ listener_detect \/ listener_no_pyserial \/ listener_open_ok \/ listener_open_failed
    \/ tick_no_data \/ tick_read_line \/ tick_serial_error \/ tick_mock \/ tick_error
    \/ append_to_csv \/ append_to_csv_failed \/ buffer_append \/ buffer_evict
    \/ except_name_error \/ except_serial \/ handler_close \/ handler_drop
    \/ handler_set_mock \/ except_other \/ sleep
    \/ api_data_copy \/ api_data_return \/ api_status_mode \/ api_status_return

Spec == Init /\ [][Next]_vars

\* ----------------------------------------------------------------- helpers
Min(a, b) == IF a < b THEN a ELSE b
Entries(history) == [i \in 1..Len(history) |-> history[i].entry]
\* part is a run of consecutive elements of whole
IsRunOf(part, whole) ==
    \E start \in 0..Len(whole) :
        /\ start + Len(part) <= Len(whole)
        /\ \A k \in 1..Len(part) : part[k] = whole[start + k]
\* the last n elements of a sequence
LastN(seq, n) == SubSeq(seq, Len(seq) - n + 1, Len(seq))
\* the listener is between the append of line 91 and the pop of line 99
MidPush == lpc = "evict"
LogRows == IF csv = <<>> THEN 0 ELSE Len(csv) - 1
Count(history, P(_)) == Cardinality({i \in 1..Len(history) : P(history[i])})
IsLogged(a) == a.logged
IsUnlogged(a) == ~a.logged
RowOf(e) == CsvRow(FormatTs(e.timestamp), e.rri, e.bsi, e.road_condition, e.battery_status)

\* ------------------------------------------------------------------ claims

\* C1: no reader observes more than BUFFER_SIZE entries: the list api_data
\* returns has at most BUFFER_SIZE entries and is a run of consecutive
\* accepted readings in push order, and the buffer_size api_status returns
\* is at most BUFFER_SIZE.
C1_ReadersSeeAtMostCapacity ==
    /\ d_pc = "copied" =>
        /\ Len(api_data_response.data) <= BUFFER_SIZE
        /\ IsRunOf(api_data_response.data, Entries(accepted))
    /\ s_pc = "mode_read" => api_status_response.buffer_size <= BUFFER_SIZE

\* C2: after N completed process_and_store calls the buffer holds the last
\* min(N, BUFFER_SIZE) pushed readings, oldest first.
C2_LastMinNC ==
    ~MidPush =>
        /\ Len(DATA_BUFFER) = Min(Len(accepted), BUFFER_SIZE)
        /\ DATA_BUFFER = LastN(Entries(accepted), Min(Len(accepted), BUFFER_SIZE))

\* more pushes than the capacity have completed and the first reading is gone
C2_Witness ==
    /\ lpc = "sleep"
    /\ Len(accepted) > BUFFER_SIZE
    /\ \A i \in 1..Len(DATA_BUFFER) : DATA_BUFFER[i] # accepted[1].entry

\* C3: the listener thread never dies from an error raised during a tick.
C3_ListenerNeverDies == lpc # "dead"

\* C4: the log append is attempted before the push, and a failed append does
\* not prevent it: every call that reaches append_to_csv, whether the write
\* succeeds or raises OSError, pushes the reading with the timestamp and the
\* fields of the attempted row.
C4_PushDespiteLogFailure ==
    LET inflight == lpc = "append"
    IN  /\ LogRows = Count(accepted, IsLogged) + (IF inflight /\ wrote THEN 1 ELSE 0)
        /\ io_errors = Count(accepted, IsUnlogged) + (IF inflight /\ ~wrote THEN 1 ELSE 0)
        /\ inflight => data # None /\ ts = ticks
        /\ inflight /\ wrote => csv[Len(csv)] = RowOf(Entry(ts, data))
        /\ \A i \in 1..Len(accepted) :
              accepted[i].logged => \E j \in 2..Len(csv) : csv[j] = RowOf(accepted[i].entry)

\* a reading whose row could not be written is in the buffer
C4_Witness ==
    \E i \in 1..Len(accepted) :
        /\ ~accepted[i].logged
        /\ \E k \in 1..Len(DATA_BUFFER) : DATA_BUFFER[k] = accepted[i].entry

\* C5: the mode flag agrees with the active source: the else branch of the
\* loop is taken only with MOCK_MODE true, a generator reading is stored
\* only with MOCK_MODE true, and with MOCK_MODE false a tick stores hardware
\* readings only.
C5_ModeAgreesWithSource ==
    /\ lpc = "tick" /\ ~HardwareActive => MOCK_MODE
    /\ src = "mock" => MOCK_MODE
    /\ ~MOCK_MODE /\ lpc \in {"store", "append", "evict"} => src = "hw"

\* a generator reading is being stored after the hardware stream was lost
C5_Witness == src = "mock" /\ lpc = "append" /\ opened = "ok" /\ MOCK_MODE

\* a port description holds one of the hints
IsCandidate(port) ==
    \E h \in Hints : \E i \in 1..Len(port.description) : port.description[i] = h
HasCandidate(plist) == \E i \in 1..Len(plist) : IsCandidate(plist[i])
\* hardware acquisition has failed in this run
StartupFailed ==
    \/ ~SERIAL_AVAILABLE
    \/ opened = "failed"
    \/ SERIAL_AVAILABLE /\ lpc \notin {"not_started", "detect"} /\ ~HasCandidate(ports)

\* C6: when hardware acquisition fails at startup, every response of
\* api_status and api_data in that run reports mock_mode = true.
C6_MockModeFromFirstCall ==
    StartupFailed =>
        /\ d_pc = "copied" => api_data_response.mock_mode
        /\ s_pc = "mode_read" => api_status_response.mock_mode

\* C7: demotion is permanent: once MOCK_MODE is true it stays true, no port
\* is opened or read again, and every reading stored afterwards comes from
\* the generator.
C7_DemotionPermanent ==
    [][MOCK_MODE =>
          /\ MOCK_MODE'
          /\ ser' # "open" /\ lpc' # "open"
          /\ fed' = fed
          /\ src' # "hw"
          /\ accepted' # accepted => accepted'[Len(accepted')].src = "mock"]_vars

\* a hardware reading was stored, the stream was lost, a generator reading followed
C7_Witness ==
    /\ MOCK_MODE /\ opened = "ok"
    /\ Len(accepted) >= 2
    /\ accepted[1].src = "hw"
    /\ accepted[Len(accepted)].src = "mock"

\* C8: before the first tick the loop is in one of two states: the port open
\* and MOCK_MODE false when a candidate was found and opened, otherwise no
\* port and MOCK_MODE true.
C8_StartupOutcome ==
    lpc = "tick" /\ ticks = 0 =>
        /\ accepted = <<>> /\ fed = <<>>
        /\ (opened # "untried") = (SERIAL_AVAILABLE /\ HasCandidate(ports))
        /\ IF SERIAL_AVAILABLE /\ HasCandidate(ports) /\ opened = "ok"
           THEN /\ HardwareActive /\ ~MOCK_MODE
                /\ \E i \in 1..Len(ports) :
                      /\ IsCandidate(ports[i]) /\ arduino_port = ports[i].device
                      /\ \A j \in 1..(i - 1) : ~IsCandidate(ports[j])
           ELSE ser = "None" /\ MOCK_MODE

\* startup ended in synthetic mode because the open failed
C8_Witness == lpc = "tick" /\ ticks = 0 /\ opened = "failed" /\ MOCK_MODE /\ ser = "None"

\* C9: a SerialException of a hardware tick is handled by closing the port
\* (an error of close() changes nothing), dropping the handle and setting
\* MOCK_MODE; the tick stores nothing, and later ticks generate readings.
C9_SerialErrorDemotes ==
    [][/\ exc = "SerialException" =>
            /\ UNCHANGED <<DATA_BUFFER, csv, accepted>>
            /\ lpc' \in {"except", "close", "drop", "set_mock", "sleep"}
       /\ lpc = "except" /\ exc = "SerialException" => lpc' \in {"except", "close"}
       /\ lpc = "close" => lpc' \in {"close", "drop"} /\ ~MOCK_MODE'
       /\ lpc = "drop" => lpc' \in {"drop", "set_mock"}
       /\ lpc = "set_mock" => ser = "None"
       /\ lpc = "set_mock" /\ lpc' # lpc =>
            lpc' = "sleep" /\ MOCK_MODE' /\ ser' = "None" /\ exc' = "none"
       /\ lpc = "tick" /\ MOCK_MODE /\ lpc' # lpc =>
            \/ lpc' = "store" /\ src' = "mock"
            \/ lpc' = "except" /\ exc' = "Exception"]_vars

\* after a handled SerialException the next tick has generated a reading
C9_Witness ==
    opened = "ok" /\ ser = "None" /\ MOCK_MODE /\ lpc = "store" /\ src = "mock"

\* the fields of the hardware readings accepted so far, in order
HwAccepted ==
    LET hw == SelectSeq(accepted, LAMBDA a : a.src = "hw")
    IN  [i \in 1..Len(hw) |->
            [rri |-> hw[i].entry.rri, bsi |-> hw[i].entry.bsi,
             road_condition |-> hw[i].entry.road_condition,
             battery_status |-> hw[i].entry.battery_status]]
\* what the parser makes of the lines fed so far, rejected lines left out
ParsedLine == [raw \in HwLines |-> parse_serial_line(raw)]
FedParsed ==
    SelectSeq([i \in 1..Len(fed) |-> ParsedLine[fed[i]]], LAMBDA r : r # None)
\* scenario A has been fed and the third tick has ended
ScenarioAFed == fed = <<LineSmooth, LineBad, LineRough>> /\ lpc = "sleep"
ScenarioABuffer ==
    /\ Len(DATA_BUFFER) = 2
    /\ DATA_BUFFER[1].rri = Float("num", 500) /\ DATA_BUFFER[1].bsi = Float("num", 15200)
    /\ DATA_BUFFER[1].road_condition = <<"S","M","O","O","T","H">>
    /\ DATA_BUFFER[1].battery_status = <<"N","O","R","M","A","L">>
    /\ DATA_BUFFER[2].rri = Float("num", 900) /\ DATA_BUFFER[2].bsi = Float("num", 22000)
    /\ DATA_BUFFER[2].road_condition = <<"R","O","U","G","H">>
    /\ DATA_BUFFER[2].battery_status = <<"C","R","I","T","I","C","A","L">>
    /\ DATA_BUFFER[1].timestamp < DATA_BUFFER[2].timestamp

\* C10 as stated: after a valid, a malformed and a valid line the buffer
\* holds the two readings in arrival order, upper-cased, and the log two rows.
C10_ScenarioATwoRows == ScenarioAFed => ScenarioABuffer /\ LogRows = 2

\* a is b with some elements left out
IsSubseq(a, b) ==
    \E f \in [1..Len(a) -> 1..Len(b)] :
        /\ \A i \in 1..Len(a) : a[i] = b[f[i]]
        /\ \A i, j \in 1..Len(a) : i < j => f[i] < f[j]

\* C10 as amended: a rejected line changes nothing and leaves the port open;
\* the accepted hardware readings are parsed lines in arrival order, none of
\* them a rejected line; after scenario A the buffer holds the valid lines
\* that were stored (both, unless process_and_store raised), in arrival
\* order and upper-cased, and the log one row for each stored reading whose
\* append did not fail.  (The order conjunct is stated of the state a step
\* leaves; every reachable state has a step leaving it.)
C10_RejectedLineDropped ==
    [][/\ fed' # fed /\ ParsedLine[fed'[Len(fed')]] = None =>
            /\ lpc' = "sleep" /\ HardwareActive'
            /\ UNCHANGED <<DATA_BUFFER, csv, MOCK_MODE, ser, accepted, io_errors>>
       /\ lpc \in {"tick", "sleep"} => IsSubseq(HwAccepted, FedParsed)
       /\ ScenarioAFed' =>
            /\ Len(accepted') <= 2
            /\ LogRows' = Len(accepted') - io_errors'
            /\ Len(accepted') = 2 => ScenarioABuffer'
            /\ \A i \in 1..Len(accepted') : accepted'[i].logged =>
                  \E j \in 2..Len(csv') : csv'[j] = RowOf(accepted'[i].entry)]_vars

\* scenario A has been fed and both valid readings are in the buffer
C10_Witness == ScenarioAFed /\ Len(DATA_BUFFER) = 2 /\ Len(accepted) = 2

\* ------------------------------------------------------- the parser alone
\* Field texts a four-field line is put together from; the texts and the
\* most fields of the lines of every other length.
FieldTexts == {
    <<"0",".","5">>,
    <<" ","1","5",".","2"," ">>,
    <<"n","a","n">>,
    <<"-","i","n","f">>,
    <<"b","a","d">>,
    <<>>,
    <<" ","R","o","u","g","h"," ">>,
    <<"+",".","5">> }
FillTexts == { <<"0",".","5">>, <<" ">>, <<"b","a","d">> }
MaxFields == 5

\* ",".join(fields) + "\n"
RECURSIVE JoinLine(_)
JoinLine(fields) ==
    IF Len(fields) = 1 THEN Head(fields) \o <<"\n">>
    ELSE Head(fields) \o <<",">> \o JoinLine(Tail(fields))
ParserInputs ==
    {JoinLine(f) : f \in [1..4 -> FieldTexts]}
        \cup {JoinLine(f) : f \in UNION {[1..n -> FillTexts] : n \in 1..MaxFields}}

\* lines 135-136 on their own: parsed = parse_serial_line(raw), for any raw
parse_one_line ==
    /\ fed = <<>>
    /\ \E raw \in ParserInputs :
        /\ fed' = <<raw>>
        /\ data' = parse_serial_line(raw)
    /\ UNCHANGED <<lpc, ser, ts, src, wrote, exc, ticks, io_errors>>
    /\ UNCHANGED fixed /\ UNCHANGED shared_vars /\ UNCHANGED reader_vars

NextParser == parse_one_line
SpecParser == Init /\ [][NextParser]_vars

\* an optional sign, then digits with at most one point and at least one digit
IsFiniteDecimal(s) ==
    LET u == IF s # <<>> /\ Head(s) \in {"+", "-"} THEN Tail(s) ELSE s
    IN  /\ \A i \in 1..Len(u) : IsDigit(u[i]) \/ u[i] = "."
        /\ \E i \in 1..Len(u) : IsDigit(u[i])
        /\ Cardinality({i \in 1..Len(u) : u[i] = "."}) <= 1
\* the fields of a line as the claim counts them
FieldsOf(raw) == Split(Strip(raw))
MustReject(raw) ==
    \/ Strip(raw) = <<>>
    \/ Len(FieldsOf(raw)) # 4
    \/ ~IsFiniteDecimal(Strip(FieldsOf(raw)[1]))
    \/ ~IsFiniteDecimal(Strip(FieldsOf(raw)[2]))

\* C11: parse_serial_line rejects every line that is blank, has other than 4
\* fields, or whose first or second field is not a finite decimal number; a
\* Reading is returned only for two finite decimal numbers, and its category
\* fields are the trimmed, upper-cased originals.
C11_ParserAcceptsFiniteDecimalsOnly ==
    fed # <<>> =>
        LET raw == fed[1]
        IN  /\ MustReject(raw) => data = None
            /\ data # None =>
                /\ ~MustReject(raw)
                /\ data.rri.kind = "num" /\ data.bsi.kind = "num"
                /\ data.road_condition = Upper(Strip(FieldsOf(raw)[3]))
                /\ data.battery_status = Upper(Strip(FieldsOf(raw)[4]))

\* ---------------------------------------------------------------- the log
IsPrefix(a, b) == Len(a) <= Len(b) /\ SubSeq(b, 1, Len(a)) = a
\* the rows of the readings in a history, in its order
RowsOf(history) == [i \in 1..Len(history) |-> RowOf(history[i].entry)]
LoggedRows == RowsOf(SelectSeq(accepted, IsLogged))
\* the row of the reading whose push is still to come
PendingRow == IF lpc = "append" /\ wrote THEN <<RowOf(Entry(ts, data))>> ELSE <<>>
LogInitialised == main_pc # "ensure_data_dir"

\* C12 as stated: no step removes or rewrites a line, and once K readings
\* are accepted the log is the header and the K rows of those readings.
C12_LogCompleteForAccepted ==
    [][/\ IsPrefix(csv, csv')
       /\ LogInitialised /\ lpc # "append" =>
            csv = <<CSV_HEADER>> \o RowsOf(accepted)]_vars

\* C12 as amended: no step removes or rewrites a line, and once K readings
\* are accepted, F of them with a failed append, the log holds K+1-F lines:
\* the header and, in acceptance order, the row (timestamp and four fields)
\* of each accepted reading whose append did not fail.  (The content
\* conjuncts are stated of the state a step leaves.)
C12_LogAppendOnly ==
    [][/\ IsPrefix(csv, csv')
       /\ LogInitialised => csv = <<CSV_HEADER>> \o LoggedRows \o PendingRow
       /\ LogInitialised /\ lpc # "append" =>
            Len(csv) = Len(accepted) + 1 - io_errors]_vars

\* three readings accepted, one append failed, the header and two rows logged
C12_Witness ==
    lpc = "sleep" /\ Len(accepted) = 3 /\ io_errors = 1 /\ Len(csv) = 3

\* ------------------------------------------------- starts against one log
\* The process ends (the listener is a daemon thread and dies with it) and
\* is started again, later: memory is as at Init, the file stays, the
\* clock has moved on.
process_restart ==
    /\ main_pc # "ensure_data_dir"
    /\ ticks < MaxTicks
    /\ ticks' = ticks + 1
    /\ main_pc' = "ensure_data_dir"
    /\ DATA_BUFFER' = <<>> /\ MOCK_MODE' = FALSE
    /\ lpc' = "not_started" /\ ser' = "None" /\ arduino_port' = "None"
    /\ data' = None /\ ts' = 0 /\ src' = "none" /\ wrote' = FALSE
    /\ exc' = "none" /\ ports' = <<>>
    /\ opened' = "untried" /\ fed' = <<>> /\ io_errors' = 0 /\ accepted' = <<>>
    /\ UNCHANGED <<SERIAL_AVAILABLE, csv_exists, csv>>
    /\ UNCHANGED reader_vars

NextStarts ==
    \/ ensure_data_dir \/ start_thread \/ app_run
    \/ listener_detect \/ listener_no_pyserial \/ listener_open_ok \/ listener_open_failed
    \/ tick_no_data \/ tick_read_line \/ tick_serial_error \/ tick_mock \/ tick_error
    \/ append_to_csv \/ append_to_csv_failed \/ buffer_append \/ buffer_evict
    \/ except_name_error \/ except_serial \/ handler_close \/ handler_drop
    \/ handler_set_mock \/ except_other \/ sleep
    \/ process_restart

SpecStarts == Init /\ [][NextStarts]_vars

HeaderLines == {i \in 1..Len(csv) : csv[i] = CSV_HEADER}

\* C13: ensure_data_dir writes the header only when the log is absent and
\* leaves an existing log unchanged; it runs before the listener starts;
\* so, over any number of starts against the same log, a log that exists
\* has the header as its first line and nowhere else, and no row is
\* written while the log is absent.
C13_HeaderOnceAndFirst ==
    [][/\ main_pc = "ensure_data_dir" /\ main_pc' # "ensure_data_dir" =>
            csv' = IF csv_exists THEN csv ELSE <<CSV_HEADER>>
       /\ main_pc = "ensure_data_dir" => lpc = "not_started"
       /\ csv_exists => HeaderLines = {1}
       /\ ~csv_exists => csv = <<>> /\ main_pc = "ensure_data_dir"]_vars

\* a later start has run ensure_data_dir against a log that holds rows
C13_Witness ==
    /\ main_pc = "start_thread" /\ lpc = "not_started"
    /\ Len(csv) >= 3 /\ HeaderLines = {1}

\* ------------------------------------------------------------ the queries
\* a reading was appended to the buffer after api_data took its copy
PushedSinceCopy ==
    /\ accepted # <<>>
    /\ \/ d_data = <<>>
       \/ d_data[Len(d_data)] # accepted[Len(accepted)].entry
QueryStep == reader_vars' # reader_vars

TickStep == lpc = "tick" /\ lpc' # "tick"
\* what a HARDWARE_ACTIVE tick may do: nothing when no data is waiting, or
\* read one line and hand it on only if it parses, or raise
HardwareTick ==
    \/ lpc' = "sleep" /\ fed' = fed
    \/ \E raw \in HwLines :
        /\ fed' = Append(fed, raw)
        /\ IF ParsedLine[raw] # None
           THEN lpc' = "store" /\ data' = ParsedLine[raw] /\ src' = "hw"
           ELSE lpc' = "sleep"
    \/ lpc' = "except" /\ fed' = fed
\* what a SYNTHETIC tick may do: hand on one generator reading, with no
\* condition on it, or raise
SyntheticTick ==
    /\ fed' = fed
    /\ \/ lpc' = "store" /\ data' \in generate_mock_data /\ src' = "mock"
       \/ lpc' = "except"
\* the stamps of the accepted readings, one clock value for each iteration
OnePerIteration ==
    \A i \in 1..Len(accepted), j \in 1..Len(accepted) :
        i < j => accepted[i].entry.timestamp < accepted[j].entry.timestamp

\* C15: an iteration stores at most one reading; a HARDWARE_ACTIVE tick
\* reads at most one line, only when data is waiting, and stores it only
\* if it parses; a SYNTHETIC tick stores one generator reading whatever
\* the reading is; and every iteration, one that raised included, ends in
\* the sleep: an iteration begins only after the sleep of the one before
\* and the listener never leaves the loop.
C15_OneReadingThenSleep ==
    [][/\ TickStep /\ HardwareActive => HardwareTick
       /\ TickStep /\ ~HardwareActive => SyntheticTick
       /\ Len(accepted') <= Len(accepted) + 1
       /\ OnePerIteration
       /\ lpc' = "tick" /\ lpc # "tick" =>
            lpc \in {"sleep", "detect", "open"}
       /\ lpc' # "dead"]_vars

\* ------------------------------------------------- log, buffer and history
IsSuffix(a, b) == Len(a) <= Len(b) /\ LastN(b, Len(a)) = a
NoRepeat(seq) == \A i, j \in 1..Len(seq) : i # j => seq[i] # seq[j]
\* the reading process_and_store has stamped and not yet pushed
InFlight == IF lpc = "append" THEN <<Entry(ts, data)>> ELSE <<>>
\* the readings process_and_store has taken, the one in hand last
Stamped == Entries(accepted) \o InFlight
\* every entry a run can build, and the row of each
Readings == {ParsedLine[raw] : raw \in HwLines} \cup generate_mock_data
Stampable == {Entry(t, d) : t \in 0..MaxTicks, d \in Readings \ {None}}
RowTable == [e \in Stampable |-> RowOf(e)]
StampedRows == [i \in 1..Len(Stamped) |-> RowTable[Stamped[i]]]
DataRows == IF csv = <<>> THEN <<>> ELSE Tail(csv)
\* a is b with some elements left out, matched from the left
RECURSIVE Embeds(_, _)
Embeds(a, b) ==
    IF a = <<>> THEN TRUE
    ELSE IF b = <<>> THEN FALSE
    ELSE IF Head(a) = Head(b) THEN Embeds(Tail(a), Tail(b))
    ELSE Embeds(a, Tail(b))

\* C16: a reading gets one timestamp, the same in its log row and in its
\* buffer entry (the row of every reading pushed with a successful append
\* is in the log); the buffer is a contiguous suffix of the readings
\* pushed so far; the log rows are, in order, rows of the readings taken
\* so far (the one being stored included); nothing is twice in the buffer
\* or in the log.
C16_StampedOnceConsistent ==
    /\ \A i \in 1..Len(accepted) :
        accepted[i].logged =>
            \E k \in 1..Len(DataRows) : DataRows[k] = RowTable[accepted[i].entry]
    /\ IsSuffix(DATA_BUFFER, Entries(accepted))
    /\ Embeds(DataRows, StampedRows)
    /\ NoRepeat(DATA_BUFFER) /\ NoRepeat(csv)

\* three readings pushed, the oldest evicted, one of the three without a row
C16_Witness ==
    /\ lpc = "sleep" /\ Len(accepted) = 3 /\ Len(DATA_BUFFER) = BUFFER_SIZE
    /\ Len(DataRows) = 2 /\ ~accepted[2].logged

\* ------------------------------------------------------------ the overshoot
InProcessAndStore == lpc \in {"store", "append", "evict"}

\* C17: the buffer never holds more than BUFFER_SIZE + 1 entries, and no
\* more than BUFFER_SIZE whenever the listener is outside process_and_store;
\* a step takes at most one entry out of the buffer, the oldest one, and
\* only the step that ends a push does.
C17_OvershootAtMostOne ==
    [][/\ Len(DATA_BUFFER) <= BUFFER_SIZE + 1
       /\ ~InProcessAndStore => Len(DATA_BUFFER) <= BUFFER_SIZE
       /\ \/ IsPrefix(DATA_BUFFER, DATA_BUFFER')
          \/ MidPush /\ lpc' = "sleep" /\ DATA_BUFFER' = Tail(DATA_BUFFER)]_vars

\* between the append and the pop, one entry over capacity
C17_Witness == MidPush /\ Len(DATA_BUFFER) = BUFFER_SIZE + 1

\* ------------------------------------------------- mode flag of a response
\* the entry was pushed as a reading of the hardware stream
FromHardware(e) ==
    \E i \in 1..Len(accepted) : accepted[i].entry = e /\ accepted[i].src = "hw"

\* C18: whenever api_data has copied the buffer, a response built from the
\* copy and from the mode flag read at any later moment that says
\* mock_mode = false holds only readings of the hardware stream.
C18_NoSyntheticUnderHardwareFlag ==
    d_pc = "copied" /\ ~api_data_response.mock_mode =>
        \A k \in 1..Len(api_data_response.data) :
            FromHardware(api_data_response.data[k])

\* a copy with hardware readings, held while the listener is demoting: the
\* port handle is dropped and the flag not yet set
C18_Witness ==
    /\ d_pc = "copied" /\ ~api_data_response.mock_mode
    /\ api_data_response.data # <<>>
    /\ lpc = "set_mock"

\* ----------------------------------------------- progress in synthetic mode
\* The steps of the listener thread when no tick raises an error other
\* than the SerialException that takes the loop to SYNTHETIC.
ListenerLive ==
    \/ listener_detect \/ listener_no_pyserial \/ listener_open_ok \/ listener_open_failed
    \/ tick_no_data \/ tick_read_line \/ tick_serial_error \/ tick_mock
    \/ append_to_csv \/ append_to_csv_failed \/ buffer_append \/ buffer_evict
    \/ except_serial \/ handler_close \/ handler_drop \/ handler_set_mock
    \/ sleep

\* main and the listener; the request handlers write nothing the listener
\* reads (lines 159-175) and are left out
NextLive ==
    \/ ensure_data_dir \/ start_thread \/ app_run
    \/ ListenerLive

\* the listener thread, once started, is scheduled again and again
SpecLive == Init /\ [][NextLive]_vars /\ WF_vars(ListenerLive)

\* at the head of an iteration that will take the generator branch
InSynthetic == lpc = "tick" /\ ~HardwareActive
HasStamp(t) == \E i \in 1..Len(DATA_BUFFER) : DATA_BUFFER[i].timestamp = t
\* the generator reading of iteration n has been pushed and the next
\* iteration is reached
PushedAt(n) ==
    /\ lpc = "tick" /\ ticks = n + 1
    /\ accepted # <<>>
    /\ accepted[Len(accepted)].src = "mock"
    /\ accepted[Len(accepted)].entry.timestamp = n
    /\ DATA_BUFFER[Len(DATA_BUFFER)] = accepted[Len(accepted)].entry
\* the loop is in SYNTHETIC, the entry stamped t is in the buffer, and the
\* iterations left before the clock's bound are enough to push it out
Evictable(t) ==
    /\ InSynthetic
    /\ \E i \in 1..Len(DATA_BUFFER) :
        /\ DATA_BUFFER[i].timestamp = t
        /\ BUFFER_SIZE - Len(DATA_BUFFER) + i <= MaxTicks - ticks

\* C19: once the loop is in SYNTHETIC, with the listener scheduled fairly
\* and no tick raising an error, every iteration before the clock's bound
\* pushes a new generator reading and reaches the next iteration; the
\* buffer length never falls below the lesser of its last value and
\* BUFFER_SIZE, so at tick boundaries it never decreases; when enough
\* iterations are left it reaches BUFFER_SIZE and stays there; and every
\* entry that the iterations left can push out is evicted.
C19_SyntheticProgress ==
    /\ \A n \in 0..(MaxTicks - 1) : (InSynthetic /\ ticks = n) ~> PushedAt(n)
    /\ [][Len(DATA_BUFFER') >= Min(Len(DATA_BUFFER), BUFFER_SIZE)]_vars
    /\ (InSynthetic /\ ticks + BUFFER_SIZE <= MaxTicks)
            ~> [](Len(DATA_BUFFER) >= BUFFER_SIZE)
    /\ \A t \in 0..(MaxTicks - 1) : Evictable(t) ~> ~HasStamp(t)

\* the clock's bound reached in SYNTHETIC, the buffer full of generator
\* readings and the first of them evicted
C19_Witness ==
    /\ InSynthetic /\ ticks = MaxTicks
    /\ Len(DATA_BUFFER) = BUFFER_SIZE
    /\ Len(accepted) > BUFFER_SIZE
    /\ \A i \in 1..Len(accepted) : accepted[i].src = "mock"
    /\ ~HasStamp(accepted[1].entry.timestamp)
====
